---- MODULE Spec2Model ----
(***************************************************************************)
(* State-machine model of the Boltz channel-creation plugin                *)
(* (src/channel-creation.py): the ambient swap record held in              *)
(* plugin.channel_creation, its JSON file, the three RPC methods, the two  *)
(* hooks, and the parts of the lightning node, the chain and the swap      *)
(* provider that the handlers read.                                        *)
(***************************************************************************)
EXTENDS Integers, Sequences, FiniteSets, TLC

VARIABLES
    channel_creation,   \* plugin.channel_creation, or NoRecord when the attribute is not set
    file,               \* contents of plugin.data_location, or NoFile
    channels,           \* listpeers(boltz_node): the channels of the Boltz peer, oldest first
    last                \* the last handler run: its input, result and the state it started from

vars == <<channel_creation, file, channels, last>>

----------------------------------------------------------------------------
(* Bounds of the model *)

MaxChannels == 2     \* channels listed for the Boltz peer
MaxHeight == 3       \* getchaininfo() reports a blockcount in 1 .. MaxHeight
TimeoutHeight == 2   \* timeoutBlockHeight the provider reports for a swap

Labels == {0, 1}     \* n of the invoice label boltz-channel-n, drawn by random.randint
SwapIds == {1}       \* the ids the provider gives its swaps

InvoiceAmounts == {3}
Percentages == {50, 70}
Capacities == {5, 6, 9, 10}
PushAmounts == {0, 1}
ChannelFlags == {0, 1}
LockupValues == {50000}

----------------------------------------------------------------------------
(* class Status(Enum): the member values, and the member names json stores *)

Created == "created"
ChannelAccepted == "channel_accepted"
InvoicePaid == "invoice_paid"
Refunded == "refunded"

Status == {Created, ChannelAccepted, InvoicePaid, Refunded}

\* status.value written in place of status.name
StatusValue(s) == s

\* status.name
StatusName(s) ==
    CASE s = Created -> "Created"
      [] s = ChannelAccepted -> "ChannelAccepted"
      [] s = InvoicePaid -> "InvoicePaid"
      [] s = Refunded -> "Refunded"

\* Status[raw_data["status"]]: the member of that name; any other string
\* raises KeyError, which stands here in the member's place
StatusOfName(n) ==
    CASE n = "Created" -> Created
      [] n = "ChannelAccepted" -> ChannelAccepted
      [] n = "InvoicePaid" -> InvoicePaid
      [] n = "Refunded" -> Refunded
      [] OTHER -> "KeyError"

NoRecord == [absent |-> TRUE]
NoFile == [missing |-> TRUE]

hasattr_channel_creation == channel_creation # NoRecord

BoltzNode == "boltz"
Nodes == {BoltzNode, "other"}

OtherLabel == 0 - 1          \* the label of an invoice that is not a swap's
Keys == {"k1"}

\* A message is the tuple of its format string and the values formatted into it.
\* str.lower() of the first character of the messages print_error is given
LowerFirst(text) ==
    CASE text = "Could not setup channel creation: {}" -> "could not setup channel creation: {}"
      [] text = "Could not add channel creation: {}" -> "could not add channel creation: {}"
      [] OTHER -> text

\* print_error
print_error(message) == [error |-> <<LowerFirst(message[1])>> \o Tail(message)]

\* format_channel_creation
format_channel_creation(cc) ==
    [ status |-> StatusName(cc.status),
      id |-> cc.id,
      private_key |-> cc.private_key,
      redeem_script |-> cc.redeem_script,
      private |-> cc.private,
      invoice_amount |-> cc.invoice_amount,
      inbound_percentage |-> cc.inbound_percentage,
      invoice_label |-> cc.invoice_label,
      preimage_hash |-> cc.preimage_hash,
      address |-> cc.address,
      expected_amount |-> cc.expected_amount,
      bip21 |-> cc.bip21 ]

\* write_channel_creation: the new contents of the file
write_channel_creation(cc) == format_channel_creation(cc)

\* read_channel_creation: the record the file holds, NoRecord when there is no file
read_channel_creation(f) ==
    IF f = NoFile THEN NoRecord
    ELSE [ status |-> StatusOfName(f.status),
           id |-> f.id,
           private_key |-> f.private_key,
           redeem_script |-> f.redeem_script,
           private |-> f.private,
           invoice_amount |-> f.invoice_amount,
           inbound_percentage |-> f.inbound_percentage,
           invoice_label |-> f.invoice_label,
           preimage_hash |-> f.preimage_hash,
           address |-> f.address,
           expected_amount |-> f.expected_amount,
           bip21 |-> f.bip21 ]

\* A status update that also replaces the refund key
update_channel_creation_status_new_key(cc, new_state) ==
    [cc EXCEPT !.status = new_state, !.private_key = "k0"]

\* update_channel_creation_status: the record after the assignment
update_channel_creation_status(cc, new_state) == [cc EXCEPT !.status = new_state]

----------------------------------------------------------------------------
(* What a handler leaves behind for inspection *)

NoTx == [none |-> TRUE]

\* read: what the handler read from the node, the chain and the provider
NoRead == [nothing |-> TRUE]

\* sent: the transaction handed to sendrawtransaction
\* pre, pre_file: the record and the file when the handler was entered
\* after_failed: the handler run before this one was a refund that returned an error
Ran(op, input, result, sent, read) ==
    [ op |-> op, input |-> input, result |-> result, sent |-> sent, read |-> read,
      pre |-> channel_creation, pre_file |-> file,
      after_failed |-> (last.op = "refundchannelcreation" /\ "error" \in DOMAIN last.result) ]

----------------------------------------------------------------------------
(* check_channel_open *)

\* Percentages p for which the binary64 value of 1 - (p / 100) lies above
\* (100 - p) / 100.  For these, invoice_amount / (1 - (p / 100)) evaluates just
\* below the exact quotient whenever that quotient is an integer, and
\* math.floor returns one less than it; for every other percentage of
\* Percentages, and for non-integer quotients, the binary64 evaluation floors
\* to the exact value (amounts below 3 * 10^6).
DenominatorRoundsUp == {70, 99}

\* math.floor(invoice_amount / (1 - (inbound_percentage / 100)))
expected_capacity(invoice_amount, inbound_percentage) ==
    LET exact == (100 * invoice_amount) \div (100 - inbound_percentage)
        integral == (100 * invoice_amount) % (100 - inbound_percentage) = 0
    IN  IF inbound_percentage \in DenominatorRoundsUp /\ integral
        THEN exact - 1
        ELSE exact

\* The reason for rejecting the proposal, <<>> for the empty string.  A reason
\* is the message with the values formatted into it.
check_channel_open(openchannel, cc) ==
    LET capacity == openchannel.funding_satoshis
        expected == expected_capacity(cc.invoice_amount, cc.inbound_percentage)
    IN  IF openchannel.push_msat # 0
        THEN <<"push amount not 0">>
        ELSE IF expected > capacity
        THEN <<"minimum capacity requirement of {}msat not met", expected>>
        ELSE IF cc.private /\ openchannel.channel_flags = 1
        THEN <<"channel is not private">>
        ELSE IF ~cc.private /\ openchannel.channel_flags = 0
        THEN <<"channel is not public">>
        ELSE <<>>

----------------------------------------------------------------------------
(* Hook openchannel *)

\* The proposals of the Boltz node, and one of another node
OpenChannels ==
    [ id : {BoltzNode}, push_msat : PushAmounts, funding_satoshis : Capacities,
      channel_flags : ChannelFlags ]
      \cup [ id : Nodes \ {BoltzNode}, push_msat : {0}, funding_satoshis : {10},
             channel_flags : ChannelFlags ]

\* on_openchannel without the test of the proposing node
openchannel_unrelated_any_node(openchannel) ==
    \/ ~hasattr_channel_creation
    \/ channel_creation.status # Created

\* The first test of on_openchannel: the proposal is none of the plugin's business
openchannel_unrelated(openchannel) ==
    \/ openchannel.id # BoltzNode
    \/ ~hasattr_channel_creation
    \/ channel_creation.status # Created

\* The channel lightningd lists once the opening it was allowed to go on with
\* is through, at the end of the peer's list; swap tells whether it is the
\* channel of the proposal on_openchannel accepted for the current record.
NewChannel(swap) == [state |-> "CHANNELD_NORMAL", htlcs |-> {}, swap |-> swap]

on_openchannel(openchannel) ==
    LET error == check_channel_open(openchannel, channel_creation)
        opened(swap) ==
            IF openchannel.id = BoltzNode
            THEN Append(channels, NewChannel(swap))
            ELSE channels
        \* the hook answers 'continue' to the Boltz node and a channel is listed
        continues == openchannel_unrelated(openchannel) \/ error = <<>>
    IN  /\ (openchannel.id = BoltzNode /\ continues) => Len(channels) < MaxChannels
        /\ IF openchannel_unrelated(openchannel)
           THEN /\ last' = Ran("openchannel", openchannel, [result |-> "continue"], NoTx, NoRead)
                /\ channels' = opened(FALSE)
                /\ UNCHANGED <<channel_creation, file>>
           ELSE IF error # <<>>
           THEN /\ last' = Ran("openchannel", openchannel,
                               [result |-> "reject", error_message |-> error], NoTx, NoRead)
                /\ UNCHANGED <<channel_creation, file, channels>>
           ELSE /\ channel_creation' =
                       update_channel_creation_status(channel_creation, ChannelAccepted)
                /\ file' = write_channel_creation(channel_creation')
                /\ last' = Ran("openchannel", openchannel, [result |-> "continue"], NoTx, NoRead)
                /\ channels' = opened(TRUE)

----------------------------------------------------------------------------
(* RPC method addchannelcreation *)

\* add_channel_creation taking only a record in Created for pending
pending_only_created(cc) ==
    /\ cc # NoRecord
    /\ cc.status = Created

\* The first test of add_channel_creation
pending(cc) ==
    /\ cc # NoRecord
    /\ cc.status # InvoicePaid /\ cc.status # Refunded

\* add_channel_creation without the loop over the channels
channel_with_boltz_skipped(chs) == FALSE

\* The loop over listpeers(): some channel with the Boltz node is not ONCHAIN
channel_with_boltz(chs) ==
    \E i \in 1 .. Len(chs) : chs[i].state # "ONCHAIN"

AddInputs ==
    [ invoice_amount : InvoiceAmounts, inbound_percentage : Percentages,
      private : BOOLEAN ]

\* How the calls of add_channel_creation end: invoice() raises RpcError (the
\* label is in use), createswap cannot connect, answers with an error, or
\* answers with the swap
CreateSwapOutcomes == {"RpcError", "ConnectionError", "error", "swap"}

\* The swap the provider creates with id k
ProviderSwap(k) ==
    [ id |-> k, address |-> <<"address", k>>, redeemScript |-> <<"redeemScript", k>>,
      expectedAmount |-> 100 + k, bip21 |-> <<"bip21", k>> ]

\* invoice(...)["payment_hash"] of the invoice labelled boltz-channel-n
payment_hash(n) == <<"payment_hash", n>>

add_channel_creation(in, n, key, outcome, k) ==
    LET swap == ProviderSwap(k)
        called == [create_swap |-> outcome]
        done(result, read) ==
            /\ last' = Ran("addchannelcreation", in, result, NoTx, read)
            /\ UNCHANGED <<channel_creation, file, channels>>
    IN  IF pending(channel_creation)
        THEN done([error |-> <<"there is a pending channel creation already">>], NoRead)
        ELSE IF channel_with_boltz(channels)
        THEN done([error |-> <<"there is a channel with the Boltz node already">>], NoRead)
        ELSE CASE outcome = "RpcError" ->
                    \* not caught by the try statement
                    done([raised |-> <<"RpcError">>], called)
               [] outcome = "ConnectionError" ->
                    done(print_error(<<"Could not add channel creation: {}", "ConnectionError">>),
                         called)
               [] outcome = "error" ->
                    done(print_error(<<"Could not setup channel creation: {}", "error">>),
                         called)
               [] outcome = "swap" ->
                    /\ channel_creation' =
                          [ id |-> swap.id,
                            private |-> in.private,
                            bip21 |-> swap.bip21,
                            status |-> Created,
                            address |-> swap.address,
                            private_key |-> key,
                            invoice_label |-> n,
                            invoice_amount |-> in.invoice_amount,
                            redeem_script |-> swap.redeemScript,
                            inbound_percentage |-> in.inbound_percentage,
                            expected_amount |-> swap.expectedAmount,
                            preimage_hash |-> payment_hash(n) ]
                    /\ file' = write_channel_creation(channel_creation')
                    \* no listed channel is the new record's
                    /\ channels' = [i \in 1 .. Len(channels) |->
                                       [channels[i] EXCEPT !.swap = FALSE]]
                    /\ last' = Ran("addchannelcreation", in,
                                   [ address |-> channel_creation'.address,
                                     expectedAmount |-> channel_creation'.expected_amount,
                                     bip21 |-> swap.bip21 ], NoTx, called)

----------------------------------------------------------------------------
(* RPC method getchannelcreation *)

get_channel_creation ==
    /\ last' = Ran("getchannelcreation", NoRead,
                   IF ~hasattr_channel_creation
                   THEN [error |-> <<"no channel creation was added">>]
                   ELSE format_channel_creation(channel_creation),
                   NoTx, NoRead)
    /\ UNCHANGED <<channel_creation, file, channels>>

----------------------------------------------------------------------------
(* find_swap_output and construct_refund_transaction *)

\* Hash functions, as injective constructors
sha256(data) == <<"sha256", data>>
Hash160(data) == <<"hash160", data>>

\* CScript([OP_HASH160, Hash160(CScript([OP_0, sha256(redeem_script)])), OP_EQUAL])
p2sh_script(redeem_script) ==
    <<"OP_HASH160", Hash160(<<"OP_0", sha256(redeem_script)>>), "OP_EQUAL">>

NotFound == 0

\* find_swap_output returning the last output paying to the swap's script
find_swap_output_last(lockup_transaction, redeem_script) ==
    LET matching == { i \in 1 .. Len(lockup_transaction.vout) :
                        lockup_transaction.vout[i].scriptPubKey = p2sh_script(redeem_script) }
    IN  IF matching = {} THEN NotFound
        ELSE CHOOSE i \in matching : \A j \in matching : i >= j

\* find_swap_output: the index (from 1) of the first output paying to the
\* swap's script, NotFound where the code raises ValueError
find_swap_output(lockup_transaction, redeem_script) ==
    LET matching == { i \in 1 .. Len(lockup_transaction.vout) :
                        lockup_transaction.vout[i].scriptPubKey = p2sh_script(redeem_script) }
    IN  IF matching = {} THEN NotFound
        ELSE CHOOSE i \in matching : \A j \in matching : i <= j

Fee == 1000

ValidAddresses == {"bcrt1-node", "bcrt1-user"}

\* 0xfffffffd, as its two 16-bit halves
Sequence == <<65535, 65533>>

SIGHASH_ALL == 1

\* The witness without its empty element
witness_stack_without_empty(sig, redeem_script) == <<sig, redeem_script>>

\* CScriptWitness([sig, bytes(), redeem_script])
witness_stack(sig, redeem_script) == <<sig, <<>>, redeem_script>>

\* construct_refund_transaction: the signed transaction, or the error raised
construct_refund_transaction(cc, lockup_transaction, address, timeout_block_height) ==
    LET lockup_vout == find_swap_output(lockup_transaction, cc.redeem_script)
        nested_script == <<"push", <<"OP_0", sha256(cc.redeem_script)>>>>
        input_amount == lockup_transaction.vout[lockup_vout].nValue
        output_amount == input_amount - Fee
        unsigned ==
            [ vin |-> << [ prevout |-> <<lockup_transaction.txid, lockup_vout>>,
                           scriptSig |-> nested_script,
                           nSequence |-> Sequence ] >>,
              vout |-> << [ nValue |-> output_amount,
                            scriptPubKey |-> <<"scriptPubKey", address>> ] >>,
              nLockTime |-> timeout_block_height ]
        sighash == [ inIdx |-> 0, amount |-> input_amount, hashtype |-> SIGHASH_ALL,
                     script |-> cc.redeem_script, txTo |-> unsigned ]
        sig == <<"sig", cc.private_key, sighash, SIGHASH_ALL>>
    IN  IF lockup_vout = NotFound
        THEN [raised |-> <<"could not find swap output">>]
        ELSE IF address \notin ValidAddresses
        THEN [raised |-> <<"Could not parse Bitcoin address: {}", address>>]
        ELSE [ vin |-> unsigned.vin, vout |-> unsigned.vout,
               nLockTime |-> unsigned.nLockTime,
               wit |-> << witness_stack(sig, cc.redeem_script) >> ]

----------------------------------------------------------------------------
(* RPC method refundchannelcreation *)

\* refund_channel_creation without the test for InvoicePaid
refundable_when_paid(cc) ==
    /\ cc # NoRecord
    /\ cc.status # Refunded

\* refund_channel_creation without the test for Refunded
refundable_when_refunded(cc) ==
    /\ cc # NoRecord
    /\ cc.status # InvoicePaid

\* The first test of refund_channel_creation, negated
refundable(cc) ==
    /\ cc # NoRecord
    /\ ~(cc.status = InvoicePaid \/ cc.status = Refunded)

\* The lockup transactions the provider may report for swap k: the escrow
\* output behind another output, no escrow output, and two escrow outputs of
\* which the first holds no more than the fee
LockupTransactions(k) ==
    LET other(v) == [nValue |-> v, scriptPubKey |-> p2sh_script(<<"redeemScript", 0>>)]
        swap(v) == [nValue |-> v, scriptPubKey |-> p2sh_script(<<"redeemScript", k>>)]
    IN  { [txid |-> <<"lockup", k>>, vout |-> <<other(v), swap(v)>>] : v \in LockupValues }
          \cup { [txid |-> <<"lockup", k>>, vout |-> <<other(1000)>>],
                 [txid |-> <<"lockup", k>>,
                  vout |-> <<other(1000), swap(1000), swap(50000)>>] }

\* What the provider answers to getswaptransaction for swap k
SwapTransactions(k) ==
    { [error |-> "could not find swap"] }
      \cup { [transactionHex |-> tx, timeoutBlockHeight |-> TimeoutHeight] :
               tx \in LockupTransactions(k) }

\* hasattr(swap_transaction, "error"): a dict has no such attribute, whatever its keys
hasattr_error(swap_transaction) == FALSE

RefundAddresses == {"", "bcrt1-user", "garbage"}

\* sendrawtransaction: the node accepts only transactions with positive outputs
MayBroadcast(tx) == \A i \in 1 .. Len(tx.vout) : tx.vout[i].nValue > 0

\* The comparison with the timeout height, turned around
before_timeout_inverted(blockcount, swap_transaction) ==
    blockcount > swap_transaction.timeoutBlockHeight

\* The status update made whatever the broadcast answered
broadcast_succeeded_always(broadcast_response) == TRUE

\* info["blockcount"] < swap_transaction["timeoutBlockHeight"]
before_timeout(blockcount, swap_transaction) ==
    blockcount < swap_transaction.timeoutBlockHeight

\* broadcast_response["success"]
broadcast_succeeded(broadcast_response) == broadcast_response.success

refund_channel_creation(address, blockcount, swap_transaction, success) ==
    LET read == [ blockcount |-> blockcount, swap_transaction |-> swap_transaction,
                  broadcast_response |-> NoRead ]
        to == IF address = "" THEN "bcrt1-node" ELSE address
        refund_transaction ==
            construct_refund_transaction(channel_creation, swap_transaction.transactionHex,
                                         to, swap_transaction.timeoutBlockHeight)
        broadcast_response ==
            [success |-> success /\ MayBroadcast(refund_transaction)]
        broadcast == [read EXCEPT !.broadcast_response = broadcast_response]
        done(result, sent, rd) ==
            /\ last' = Ran("refundchannelcreation", address, result, sent, rd)
            /\ UNCHANGED <<channel_creation, file>>
    IN  /\ UNCHANGED channels
        /\ IF ~refundable(channel_creation)
           THEN done([error |-> <<"no refundable channel creation found">>], NoTx, NoRead)
           ELSE /\ IF hasattr_error(swap_transaction)
                   THEN done([error |-> <<"could not find lockup transaction: {}",
                                          swap_transaction.error>>], NoTx, read)
                   ELSE IF "timeoutBlockHeight" \notin DOMAIN swap_transaction
                   THEN done([raised |-> <<"KeyError", "timeoutBlockHeight">>], NoTx, read)
                   ELSE IF before_timeout(blockcount, swap_transaction)
                   THEN done([error |-> <<"channel creation cannot be refunded before block height {}",
                                          swap_transaction.timeoutBlockHeight>>], NoTx, read)
                   ELSE IF "raised" \in DOMAIN refund_transaction
                   THEN done(refund_transaction, NoTx, read)
                   ELSE IF broadcast_succeeded(broadcast_response)
                   THEN /\ channel_creation' =
                               update_channel_creation_status(channel_creation, Refunded)
                        /\ file' = write_channel_creation(channel_creation')
                        /\ last' = Ran("refundchannelcreation", address,
                                       [txid |-> <<"txid", refund_transaction>>,
                                        txhex |-> refund_transaction],
                                       refund_transaction, broadcast)
                   ELSE done([error |-> <<"could not broadcast refund transaction {}", "errmsg">>],
                             refund_transaction, broadcast)

----------------------------------------------------------------------------
(* Hook invoice_payment *)

Payments == [label : Labels \cup {OtherLabel}]

\* The first test of on_invoice_payment: the payment is not for the swap's invoice
payment_unrelated(payment) ==
    \/ ~hasattr_channel_creation
    \/ channel_creation.invoice_label # payment.label

\* on_invoice_payment letting a record in Created through
no_channel_opened_terminal_only(cc) == cc.status \notin {Created, ChannelAccepted}

\* The second test of on_invoice_payment
no_channel_opened(cc) == cc.status # ChannelAccepted

\* listpeers(boltz_node)["peers"][0]["channels"][-1]; the list is not empty
listed_channel(chs) == chs[Len(chs)]

\* The loop over the HTLCs of the channel
sent_over_right_channel(channel, cc) ==
    \E htlc \in channel.htlcs : htlc = cc.preimage_hash

on_invoice_payment(payment) ==
    LET read == [channels |-> channels]
        done(result, rd) ==
            /\ last' = Ran("invoice_payment", payment, result, NoTx, rd)
            /\ UNCHANGED <<channel_creation, file>>
    IN  /\ UNCHANGED channels
        /\ IF payment_unrelated(payment)
           THEN done([result |-> "continue"], NoRead)
           ELSE IF no_channel_opened(channel_creation)
           THEN done([result |-> "reject"], NoRead)
           ELSE IF channels = <<>>
           THEN \* no peer entry, or a peer without channels
                done([raised |-> <<"IndexError">>], read)
           ELSE IF ~sent_over_right_channel(listed_channel(channels), channel_creation)
           THEN done([result |-> "reject"], read)
           ELSE /\ channel_creation' =
                       update_channel_creation_status(channel_creation, InvoicePaid)
                /\ file' = write_channel_creation(channel_creation')
                /\ last' = Ran("invoice_payment", payment, [result |-> "continue"], NoTx, read)

----------------------------------------------------------------------------
(* init: the plugin is started again and reads its file *)

init ==
    /\ channel_creation' = read_channel_creation(file)
    /\ last' = Ran("init", NoRead, [started |-> TRUE], NoTx, NoRead)
    /\ UNCHANGED <<file, channels>>

----------------------------------------------------------------------------
(* The node, the chain and the counterparty *)

\* An HTLC paying the invoice of the current record is added to the i-th channel
HtlcArrives(i) ==
    /\ channels[i].state = "CHANNELD_NORMAL"
    /\ hasattr_channel_creation
    /\ channel_creation.preimage_hash \notin channels[i].htlcs
    /\ channels' = [channels EXCEPT ![i].htlcs = @ \cup {channel_creation.preimage_hash}]
    /\ UNCHANGED <<channel_creation, file, last>>

\* The i-th channel is closed and its closing transaction is mined
ChannelCloses(i) ==
    /\ channels[i].state = "CHANNELD_NORMAL"
    /\ channels' = [channels EXCEPT ![i] = [@ EXCEPT !.state = "ONCHAIN", !.htlcs = {}]]
    /\ UNCHANGED <<channel_creation, file, last>>

\* lightningd forgets the i-th channel, closed on chain
ChannelForgotten(i) ==
    /\ channels[i].state = "ONCHAIN"
    /\ channels' = [j \in 1 .. Len(channels) - 1 |->
                       IF j < i THEN channels[j] ELSE channels[j + 1]]
    /\ UNCHANGED <<channel_creation, file, last>>

----------------------------------------------------------------------------

\* What the calls of a handler may return in the current state: one value when
\* the handler returns before it makes the calls
AddEnvironments ==
    IF pending(channel_creation) \/ channel_with_boltz(channels)
    THEN { [n |-> 0, key |-> "k1", outcome |-> "swap", k |-> 1] }
    ELSE [n : Labels, key : Keys, outcome : {"swap"}, k : SwapIds]
           \cup [n : {0}, key : {"k1"}, outcome : CreateSwapOutcomes \ {"swap"}, k : {1}]

RefundEnvironments ==
    IF ~refundable(channel_creation)
    THEN { [ blockcount |-> 1, swap_transaction |-> [error |-> "could not find swap"],
             success |-> FALSE ] }
    ELSE { env \in [ blockcount : 1 .. MaxHeight,
                      swap_transaction : SwapTransactions(channel_creation.id),
                      success : BOOLEAN ] :
             \* sendrawtransaction answers only when it is called
             env.success => /\ "timeoutBlockHeight" \in DOMAIN env.swap_transaction
                            /\ env.blockcount >= env.swap_transaction.timeoutBlockHeight }

Init ==
    /\ channel_creation = NoRecord
    /\ file = NoFile
    /\ channels = <<>>
    /\ last = [ op |-> "none", input |-> NoRead, result |-> [started |-> TRUE],
                sent |-> NoTx, read |-> NoRead, pre |-> NoRecord, pre_file |-> NoFile,
                after_failed |-> FALSE ]

Next ==
    \/ \E in \in AddInputs, env \in AddEnvironments :
           add_channel_creation(in, env.n, env.key, env.outcome, env.k)
    \/ get_channel_creation
    \/ \E address \in RefundAddresses, env \in RefundEnvironments :
           refund_channel_creation(address, env.blockcount, env.swap_transaction, env.success)
    \/ \E openchannel \in OpenChannels : on_openchannel(openchannel)
    \/ \E payment \in Payments : on_invoice_payment(payment)
    \/ init
    \/ \E i \in 1 .. Len(channels) : HtlcArrives(i)
    \/ \E i \in 1 .. Len(channels) : ChannelCloses(i)
    \/ \E i \in 1 .. Len(channels) : ChannelForgotten(i)

Spec == Init /\ [][Next]_vars

----------------------------------------------------------------------------
(* Properties.  Each is stated on the last handler run: the record the      *)
(* handler started from (last.pre), what it was given and read, what it     *)
(* returned, and the record it left (channel_creation).  Only handlers      *)
(* change channel_creation and file, so a property of every single run is a *)
(* property of every sequence of runs.                                       *)

Terminal(cc) == cc # NoRecord /\ cc.status \in {InvoicePaid, Refunded}
NonTerminal(cc) == cc # NoRecord /\ cc.status \in {Created, ChannelAccepted}

PluginStateUnchanged == channel_creation = last.pre /\ file = last.pre_file

ReturnsError(text) == "error" \in DOMAIN last.result /\ last.result.error[1] = text

\* C1: once the record's status is InvoicePaid or Refunded, an openchannel
\* hook, an invoice_payment hook or a refundchannelcreation call leaves the
\* record, and so its status, as it was.
C1_TerminalIsFinal ==
    ( /\ last.op \in {"openchannel", "invoice_payment", "refundchannelcreation"}
      /\ Terminal(last.pre) )
    => /\ channel_creation # NoRecord
       /\ channel_creation.status = last.pre.status
       /\ channel_creation = last.pre

\* A refund was asked for a record whose invoice was paid
C1_Witness ==
    /\ last.op = "refundchannelcreation"
    /\ Terminal(last.pre)
    /\ last.pre.status = InvoicePaid
    /\ channel_creation.status = InvoicePaid

\* C2: addchannelcreation on a record in Created or ChannelAccepted returns
\* the error 'there is a pending channel creation already', creates no record
\* and leaves the existing record and its file unchanged.
C2_OnePendingSwap ==
    (last.op = "addchannelcreation" /\ NonTerminal(last.pre))
    => /\ last.result = [error |-> <<"there is a pending channel creation already">>]
       /\ PluginStateUnchanged

\* addchannelcreation was called on an accepted channel creation
C2_Witness ==
    /\ last.op = "addchannelcreation"
    /\ NonTerminal(last.pre)
    /\ last.pre.status = ChannelAccepted
    /\ ReturnsError("there is a pending channel creation already")

\* floor(invoice_amount / (1 - inbound_percentage/100)), in exact arithmetic
ExactExpectedCapacity(cc) ==
    (100 * cc.invoice_amount) \div (100 - cc.inbound_percentage)

\* C3: for a proposal of the Boltz node in status Created: push amount 0,
\* capacity equal to the expected capacity and matching visibility are
\* accepted ('continue', status ChannelAccepted); a proposal that violates
\* exactly one of the three conditions (a non-zero push amount, a capacity
\* below the expected capacity as section 4.2 puts it, or the wrong visibility)
\* is rejected with the reason of that condition and the status stays Created.
C3_ChannelOpenGuard ==
    ( /\ last.op = "openchannel"
      /\ last.input.id = BoltzNode
      /\ last.pre # NoRecord
      /\ last.pre.status = Created )
    => LET o == last.input
           expected == ExactExpectedCapacity(last.pre)
           push_ok == o.push_msat = 0
           visible_ok == (o.channel_flags = 0) <=> last.pre.private
           rejected(reasons) ==
               /\ "result" \in DOMAIN last.result /\ last.result.result = "reject"
               /\ "error_message" \in DOMAIN last.result
               /\ last.result.error_message # <<>>
               /\ last.result.error_message[1] \in reasons
               /\ channel_creation = last.pre
       IN  /\ (push_ok /\ o.funding_satoshis = expected /\ visible_ok)
                => /\ last.result = [result |-> "continue"]
                   /\ channel_creation.status = ChannelAccepted
           /\ (~push_ok /\ o.funding_satoshis = expected /\ visible_ok)
                => rejected({"push amount not 0"})
           /\ (push_ok /\ o.funding_satoshis < expected /\ visible_ok)
                => rejected({"minimum capacity requirement of {}msat not met"})
           /\ (push_ok /\ o.funding_satoshis = expected /\ ~visible_ok)
                => rejected({"channel is not private", "channel is not public"})

\* The channel listed for the record when the payment was looked at, as the
\* one its accepted proposal opened, carries an HTLC with the record's hash
PaidOverSwapChannel ==
    \E i \in 1 .. Len(last.read.channels) :
        /\ last.read.channels[i].swap
        /\ last.pre.preimage_hash \in last.read.channels[i].htlcs

SwapChannelListed ==
    \E i \in 1 .. Len(last.read.channels) : last.read.channels[i].swap

\* C4: an invoice_payment with the record's label, in status ChannelAccepted
\* with the swap's channel listed, is rejected without a status change when
\* that channel carries no HTLC with preimage_hash, also when another channel
\* of the Boltz peer carries one; the status becomes InvoicePaid only when the
\* swap's channel carries such an HTLC.
C4_InvoicePaymentGuard ==
    ( /\ last.op = "invoice_payment"
      /\ last.pre # NoRecord
      /\ last.input.label = last.pre.invoice_label
      /\ last.pre.status = ChannelAccepted
      /\ SwapChannelListed )
    => /\ ~PaidOverSwapChannel
          => /\ last.result = [result |-> "reject"]
             /\ channel_creation = last.pre
       /\ channel_creation.status = InvoicePaid => PaidOverSwapChannel

Transitions ==
    { <<Created, ChannelAccepted>>, <<ChannelAccepted, InvoicePaid>>,
      <<Created, Refunded>>, <<ChannelAccepted, Refunded>> }

\* A successful addchannelcreation installs another record
NewRecord ==
    last.op = "addchannelcreation" /\ "address" \in DOMAIN last.result

\* C5: the status of a record changes only Created -> ChannelAccepted,
\* ChannelAccepted -> InvoicePaid, Created -> Refunded and ChannelAccepted ->
\* Refunded; an invoice_payment with the record's label in status Created is
\* rejected without a state change.
C5_MonotonicStatus ==
    /\ (last.pre # NoRecord /\ ~NewRecord)
         => /\ channel_creation # NoRecord
            /\ \/ channel_creation = last.pre
               \/ /\ <<last.pre.status, channel_creation.status>> \in Transitions
                  /\ channel_creation = [last.pre EXCEPT !.status = channel_creation.status]
    /\ ( /\ last.op = "invoice_payment"
         /\ last.pre # NoRecord
         /\ last.pre.status = Created
         /\ last.input.label = last.pre.invoice_label )
         => /\ last.result = [result |-> "reject"]
            /\ PluginStateUnchanged
    /\ (last.pre # NoRecord /\ ~NewRecord /\ channel_creation.status = InvoicePaid)
         => last.pre.status \in {ChannelAccepted, InvoicePaid}

\* The payment of the record's invoice arrived before any channel was accepted
C5_Witness ==
    /\ last.op = "invoice_payment"
    /\ last.pre # NoRecord
    /\ last.pre.status = Created
    /\ last.input.label = last.pre.invoice_label
    /\ last.result = [result |-> "reject"]

\* The last handler run made the record Refunded
BecameRefunded ==
    /\ channel_creation # NoRecord
    /\ channel_creation.status = Refunded
    /\ channel_creation # last.pre

\* C6: the status becomes Refunded only in a refundchannelcreation call on a
\* record in Created or ChannelAccepted, in which the chain height read was at
\* least the swap's timeout height and the broadcast reported success; no
\* transaction is handed to the broadcast at a height below the timeout.
C6_RefundOnlyAfterTimeout ==
    /\ BecameRefunded
         => /\ last.op = "refundchannelcreation"
            /\ NonTerminal(last.pre)
            /\ last.read.blockcount >= last.read.swap_transaction.timeoutBlockHeight
            /\ last.read.blockcount >= TimeoutHeight
            /\ last.sent # NoTx
            /\ last.read.broadcast_response = [success |-> TRUE]
    /\ last.sent # NoTx
         => /\ last.op = "refundchannelcreation"
            /\ last.read.blockcount >= last.read.swap_transaction.timeoutBlockHeight

\* An accepted channel creation was refunded at the timeout height
C6_Witness ==
    /\ BecameRefunded
    /\ last.op = "refundchannelcreation"
    /\ last.pre.status = ChannelAccepted
    /\ last.read.blockcount = TimeoutHeight

\* The refund attempt of the last run failed: too early, or not broadcast
RefundFailed ==
    /\ last.op = "refundchannelcreation"
    /\ NonTerminal(last.pre)
    /\ "timeoutBlockHeight" \in DOMAIN last.read.swap_transaction
    /\ \/ last.read.blockcount < last.read.swap_transaction.timeoutBlockHeight
       \/ last.read.broadcast_response = [success |-> FALSE]

\* C7: a refund attempt that fails, below the timeout height or at the
\* broadcast, returns an error and leaves record and file as they were, so the
\* record is still refundable; the call that follows a failed attempt is
\* admitted (it does not answer 'no refundable channel creation found').
C7_FailedRefundKeepsRecord ==
    /\ RefundFailed
         => /\ "error" \in DOMAIN last.result
            /\ PluginStateUnchanged
            /\ refundable(channel_creation)
    /\ (last.op = "refundchannelcreation" /\ last.after_failed /\ NonTerminal(last.pre))
         => ~ReturnsError("no refundable channel creation found")

\* A refund that followed a failed attempt reached Refunded
C7_Witness ==
    /\ last.op = "refundchannelcreation"
    /\ last.after_failed
    /\ BecameRefunded

\* C8: refundchannelcreation with no record, or on a record in InvoicePaid or
\* Refunded, returns the error 'no refundable channel creation found', asks
\* the provider nothing, broadcasts nothing and changes no state.
C8_NothingToRefund ==
    (last.op = "refundchannelcreation" /\ (last.pre = NoRecord \/ Terminal(last.pre)))
    => /\ last.result = [error |-> <<"no refundable channel creation found">>]
       /\ last.sent = NoTx
       /\ last.read = NoRead
       /\ PluginStateUnchanged

\* A refund was asked for a record already refunded
C8_Witness ==
    /\ last.op = "refundchannelcreation"
    /\ Terminal(last.pre)
    /\ last.pre.status = Refunded
    /\ ReturnsError("no refundable channel creation found")

\* C9: when the provider answers the lockup-transaction lookup with an error,
\* refundchannelcreation returns the error 'could not find lockup
\* transaction: ...', broadcasts nothing and leaves the status unchanged.
C9_LockupNotFound ==
    ( /\ last.op = "refundchannelcreation"
      /\ NonTerminal(last.pre)
      /\ "error" \in DOMAIN last.read.swap_transaction )
    => /\ ReturnsError("could not find lockup transaction: {}")
       /\ last.sent = NoTx
       /\ channel_creation.status = last.pre.status

\* C10: an openchannel event not from the Boltz node, or with no record, or
\* with a record not in Created, returns 'continue' and changes no plugin
\* state; so does an invoice_payment whose label is not the record's, or with
\* no record.
C10_UnrelatedEventsIgnored ==
    /\ ( /\ last.op = "openchannel"
         /\ \/ last.input.id # BoltzNode
            \/ last.pre = NoRecord
            \/ last.pre.status # Created )
         => /\ last.result = [result |-> "continue"]
            /\ PluginStateUnchanged
    /\ ( /\ last.op = "invoice_payment"
         /\ \/ last.pre = NoRecord
            \/ last.pre.invoice_label # last.input.label )
         => /\ last.result = [result |-> "continue"]
            /\ PluginStateUnchanged

\* Another node proposed a channel that would pass the guard of the pending record
C10_Witness ==
    /\ last.op = "openchannel"
    /\ last.input.id # BoltzNode
    /\ last.pre # NoRecord
    /\ last.pre.status = Created
    /\ check_channel_open(last.input, last.pre) = <<>>
    /\ last.result = [result |-> "continue"]


Hooks == {"openchannel", "invoice_payment"}

\* C11: every 'reject' an openchannel or invoice_payment hook returns carries
\* a non-empty reason in the returned result.
C11_RejectCarriesReason ==
    ( /\ last.op \in Hooks
      /\ "result" \in DOMAIN last.result
      /\ last.result.result = "reject" )
    => /\ "error_message" \in DOMAIN last.result
       /\ last.result.error_message # <<>>

\* C12: every openchannel or invoice_payment event ends with a 'continue' or
\* a 'reject' result, also an invoice_payment with the record's label in
\* status ChannelAccepted when no channel of the Boltz peer is listed.
C12_HooksAlwaysAnswer ==
    last.op \in Hooks
    => /\ "result" \in DOMAIN last.result
       /\ last.result.result \in {"continue", "reject"}

\* The escrow output find_swap_output locates in the lockup transaction the
\* refund call read: the first one paying to the record's script
EscrowOutputs ==
    LET tx == last.read.swap_transaction.transactionHex
    IN  { i \in 1 .. Len(tx.vout) :
            tx.vout[i].scriptPubKey = p2sh_script(last.pre.redeem_script) }

\* The refund call of the last run got as far as constructing the transaction
RefundConstructed ==
    /\ last.op = "refundchannelcreation"
    /\ NonTerminal(last.pre)
    /\ "transactionHex" \in DOMAIN last.read.swap_transaction
    /\ last.read.blockcount >= last.read.swap_transaction.timeoutBlockHeight

\* C13: no refund transaction is produced from an escrow output of value
\* <= 1000 (the construction fails), and every refund transaction produced
\* has a strictly positive output value, the escrow value less 1000.
C13_InsufficientFunds ==
    RefundConstructed
    => LET tx == last.read.swap_transaction.transactionHex
       IN  /\ (\E i \in EscrowOutputs : tx.vout[i].nValue <= 1000) => last.sent = NoTx
           /\ last.sent # NoTx
                => /\ last.sent.vout[1].nValue > 0
                   /\ \E i \in EscrowOutputs :
                         last.sent.vout[1].nValue = tx.vout[i].nValue - 1000


\* C14: every refund transaction construct_refund_transaction produces has
\* one input, spending an escrow output of the lockup transaction with
\* sequence 0xfffffffd, one output of that escrow output's value less 1000,
\* the timeout block height as its locktime, and one witness of three
\* elements: the signature with the sighash byte, an empty element, the
\* redeem script.
C14_RefundTransactionShape ==
    last.sent # NoTx
    => LET tx == last.sent
           lockup == last.read.swap_transaction.transactionHex
       IN  /\ Len(tx.vin) = 1
           /\ tx.vin[1].prevout[1] = lockup.txid
           /\ tx.vin[1].prevout[2] \in EscrowOutputs
           /\ tx.vin[1].nSequence = <<65535, 65533>>
           /\ Len(tx.vout) = 1
           /\ tx.vout[1].nValue = lockup.vout[tx.vin[1].prevout[2]].nValue - 1000
           /\ tx.nLockTime = last.read.swap_transaction.timeoutBlockHeight
           /\ Len(tx.wit) = 1
           /\ Len(tx.wit[1]) = 3
           /\ tx.wit[1][1][2] = last.pre.private_key
           /\ tx.wit[1][1][4] = SIGHASH_ALL
           /\ tx.wit[1][2] = <<>>
           /\ tx.wit[1][3] = last.pre.redeem_script

\* A refund transaction was built from an escrow output of 50000
C14_Witness ==
    /\ last.sent # NoTx
    /\ last.sent.vout[1].nValue = 49000
    /\ "txid" \in DOMAIN last.result

\* C15: find_swap_output returns the smallest index of an output whose
\* script is the P2SH-wrapped witness script of the record's redeem script,
\* never the index of another output, and fails with 'could not find swap
\* output' exactly when no output has that script.
C15_FirstEscrowOutput ==
    RefundConstructed
    => /\ (EscrowOutputs = {})
            <=> (last.result = [raised |-> <<"could not find swap output">>])
       /\ last.sent # NoTx
            => /\ last.sent.vin[1].prevout[2] \in EscrowOutputs
               /\ \A j \in EscrowOutputs : last.sent.vin[1].prevout[2] <= j
       /\ (EscrowOutputs # {} /\ last.sent = NoTx)
            => /\ "raised" \in DOMAIN last.result
               /\ last.result.raised[1] = "Could not parse Bitcoin address: {}"

\* A refund located the first of two escrow outputs behind another output
C15_Witness ==
    /\ RefundConstructed
    /\ Cardinality(EscrowOutputs) = 2
    /\ last.sent # NoTx
    /\ last.sent.vin[1].prevout[2] = 2


\* The fields of a record other than its status
Fields(cc) ==
    <<cc.id, cc.private_key, cc.redeem_script, cc.private, cc.invoice_amount,
      cc.inbound_percentage, cc.invoice_label, cc.preimage_hash, cc.address,
      cc.expected_amount, cc.bip21>>

\* C16: whatever hook or RPC call is applied to a record, every field of
\* it other than status keeps its value; only a successful
\* addchannelcreation, which installs another record, sets them.
C16_OnlyStatusChanges ==
    (last.pre # NoRecord /\ ~NewRecord)
    => /\ channel_creation # NoRecord
       /\ Fields(channel_creation) = Fields(last.pre)
       /\ file # NoFile
       /\ Fields(file) = Fields(last.pre)

\* A hook or a refund changed the status of the record
C16_Witness ==
    /\ last.pre # NoRecord
    /\ ~NewRecord
    /\ channel_creation.status # last.pre.status

\* C17: a record whose status is InvoicePaid or Refunded can still be
\* obtained from the plugin after any later operation, a successful
\* addchannelcreation included.
C17_TerminalRecordRetrievable ==
    Terminal(last.pre)
    => \/ channel_creation = last.pre
       \/ read_channel_creation(file) = last.pre

\* C18: reading back what write_channel_creation wrote gives a record
\* identical in every field, for every record the plugin holds; a restart
\* resumes with the record, and so the status, the plugin had.
C18_PersistenceRoundTrip ==
    /\ channel_creation # NoRecord
         => read_channel_creation(write_channel_creation(channel_creation)) = channel_creation
    /\ last.op = "init" => channel_creation = last.pre

\* The plugin was started again after a transition of its record
C18_Witness ==
    /\ last.op = "init"
    /\ last.pre # NoRecord
    /\ last.pre.status = ChannelAccepted
    /\ channel_creation.status = ChannelAccepted

\* C19: an addchannelcreation that finds a channel with the Boltz node that
\* is not ONCHAIN, or whose createswap answer holds an error, returns an
\* error and leaves the record and the file as they were; one that succeeds
\* leaves a record in status Created, and that record in the file.
C19_FailedAddKeepsRecord ==
    last.op = "addchannelcreation"
    => /\ ( /\ ~NonTerminal(last.pre)
            /\ \E i \in 1 .. Len(channels) : channels[i].state # "ONCHAIN" )
          => /\ ReturnsError("there is a channel with the Boltz node already")
             /\ PluginStateUnchanged
       /\ (last.read # NoRead /\ last.read.create_swap = "error")
          => /\ ReturnsError("could not setup channel creation: {}")
             /\ PluginStateUnchanged
       /\ "error" \in DOMAIN last.result => PluginStateUnchanged
       /\ NewRecord
          => /\ channel_creation # NoRecord
             /\ channel_creation.status = Created
             /\ file = format_channel_creation(channel_creation)

\* An addchannelcreation failed over a channel while a paid record was stored
C19_Witness ==
    /\ last.op = "addchannelcreation"
    /\ Terminal(last.pre)
    /\ ReturnsError("there is a channel with the Boltz node already")
    /\ channel_creation = last.pre

====
